---- MODULE Spec2Model ----
(***************************************************************************)
(* Model of app.py: the medical-report pipeline behind POST /api/testing.  *)
(*                                                                         *)
(* A Python str is a sequence of one-character strings.  The fixed         *)
(* literals the code inserts (the span tags, the advisory blocks, the      *)
(* section separator, the fallback summary) are single elements of such a  *)
(* sequence: none of them can be produced, split or matched by the         *)
(* character-level operations modelled here, because each contains a       *)
(* character ('<', '>', '=', ';' or a non-ASCII symbol) that no pattern of *)
(* the code matches.                                                       *)
(***************************************************************************)
EXTENDS Integers, Sequences, FiniteSets, TLC

(* ------------------------------------------------------------------ *)
(* Bounds of the model                                                 *)
(* ------------------------------------------------------------------ *)
\* the length of a raw text given to clean_text
MaxRawLen == 5
\* the pieces of a text given to highlight_abnormal_values
MaxSegments == 3
\* the length of the LLM's answer to classify_severity
MaxAnswerLen == 3
\* the requests in flight together, and the files of one request
NumRequests == 2
MaxFiles == 2
\* the files of a request when NumRequests requests run together
MaxFilesThreaded == 1

(* ------------------------------------------------------------------ *)
(* Characters                                                          *)
(* ------------------------------------------------------------------ *)
Lower == {"a","b","c","d","e","f","g","h","i","j","k","l","m",
          "n","o","p","q","r","s","t","u","v","w","x","y","z"}
Upper == {"A","B","C","D","E","F","G","H","I","J","K","L","M",
          "N","O","P","Q","R","S","T","U","V","W","X","Y","Z"}
Digits == {"0","1","2","3","4","5","6","7","8","9"}
Whitespace == {" ", "\n", "\t"}
Backslash == "\\"

\* The complement of the character class of line 56: the characters the
\* second re.sub keeps.  The class is written  A-Za-z0-9%:.,/\\\- ()  in a
\* raw string: "\\" is an escaped backslash and "\-" an escaped hyphen.
KeptChars == Lower \cup Upper \cup Digits
               \cup {"%", ":", ".", ",", "/", Backslash, "-", " ", "(", ")"}

(* ------------------------------------------------------------------ *)
(* Generic str helpers                                                 *)
(* ------------------------------------------------------------------ *)
RECURSIVE LStrip(_)
LStrip(s) == IF s # <<>> /\ Head(s) \in Whitespace THEN LStrip(Tail(s)) ELSE s

RECURSIVE RStrip(_)
RStrip(s) == IF s # <<>> /\ s[Len(s)] \in Whitespace
             THEN RStrip(SubSeq(s, 1, Len(s) - 1)) ELSE s

\* str.strip()
Strip(s) == RStrip(LStrip(s))

(* ------------------------------------------------------------------ *)
(* clean_text                                                          *)
(* ------------------------------------------------------------------ *)
\* re.sub(r'\s+', ' ', raw_text): every maximal run of whitespace becomes
\* one space.
RECURSIVE CollapseWhitespace(_)
CollapseWhitespace(s) ==
    IF s = <<>> THEN <<>>
    ELSE IF Head(s) \in Whitespace
         THEN <<" ">> \o CollapseWhitespace(LStrip(s))
         ELSE <<Head(s)>> \o CollapseWhitespace(Tail(s))

\* re.sub(r'[^A-Za-z0-9%:.,/\\\- ()]+', '', text)
RemoveDisallowed(s) == SelectSeq(s, LAMBDA c : c \in KeptChars)

clean_text(raw_text) == Strip(RemoveDisallowed(CollapseWhitespace(raw_text)))

(* ------------------------------------------------------------------ *)
(* highlight_abnormal_values                                           *)
(* ------------------------------------------------------------------ *)
\* The three literals of lines 113 and 115, each one element of a str.
SpanRed == "<span style='color:red; font-weight:bold;'>"
SpanGreen == "<span style='color:green; font-weight:bold;'>"
SpanEnd == "</span>"

\* The character classes of the pattern of line 102.
LabelChars == Lower \cup Upper \cup Whitespace      \* [A-Za-z\s]
NumberChars == Digits \cup {"."}                    \* [\d.]
UnitChars == Lower \cup Upper \cup {"/", "%", "^"}  \* [a-zA-Z/%^]

\* The first position j >= i of s that holds no character of class
\* (Len(s) + 1 when the run reaches the end): where a greedy class* stops.
RECURSIVE RunEnd(_, _, _)
RunEnd(s, i, class) ==
    IF i <= Len(s) /\ s[i] \in class THEN RunEnd(s, i + 1, class) ELSE i

CharAt(s, i) == IF i >= 1 /\ i <= Len(s) THEN s[i] ELSE "EOS"

\* The pattern of line 102 tried at position i of s, as re matches it:
\*   ([A-Za-z\s]+)\s+([\d.]+)\s*[a-zA-Z/%^]*\s*\(([\d.]+)\s*-\s*([\d.]+)\)
\* The label run is greedy and gives back its last whitespace to \s+; the
\* classes that follow are disjoint from their neighbours, so every other
\* group is the maximal run.  The result is [ok |-> FALSE] or the span and
\* the three numeric groups.
MatchAt(s, i) ==
    LET j1 == RunEnd(s, i, LabelChars)
        j2 == RunEnd(s, j1, NumberChars)
        j3 == RunEnd(s, j2, Whitespace)
        j4 == RunEnd(s, j3, UnitChars)
        j5 == RunEnd(s, j4, Whitespace)
        j6 == RunEnd(s, j5 + 1, NumberChars)
        j7 == RunEnd(s, j6, Whitespace)
        j8 == RunEnd(s, j7 + 1, Whitespace)
        j9 == RunEnd(s, j8, NumberChars)
    IN IF /\ j1 - i >= 2
          /\ s[j1 - 1] \in Whitespace
          /\ j2 > j1
          /\ CharAt(s, j5) = "("
          /\ j6 > j5 + 1
          /\ CharAt(s, j7) = "-"
          /\ j9 > j8
          /\ CharAt(s, j9) = ")"
       THEN [ok |-> TRUE, start |-> i, end |-> j9,
             value |-> SubSeq(s, j1, j2 - 1),
             ref_min |-> SubSeq(s, j5 + 1, j6 - 1),
             ref_max |-> SubSeq(s, j8, j9 - 1)]
       ELSE [ok |-> FALSE]

\* re.finditer(pattern, text): the leftmost match at or after pos, then
\* the search goes on after its end.
RECURSIVE FindIter(_, _)
FindIter(s, pos) ==
    IF pos > Len(s) THEN <<>>
    ELSE LET m == MatchAt(s, pos)
         IN IF m.ok THEN <<m>> \o FindIter(s, m.end + 1)
                    ELSE FindIter(s, pos + 1)

\* float() of a string of digits and dots: a ValueError unless it holds at
\* most one dot and at least one digit.  The value is kept exact, as
\* num / 10^scale; the numerals of the model are short enough for a double
\* to order them as the decimals are ordered.
RECURSIVE DigitsValue(_)
DigitsValue(s) ==
    IF s = <<>> THEN 0
    ELSE 10 * DigitsValue(SubSeq(s, 1, Len(s) - 1))
         + (CHOOSE d \in 0..9 : ToString(d) = s[Len(s)])

RECURSIVE Pow10(_)
Pow10(n) == IF n = 0 THEN 1 ELSE 10 * Pow10(n - 1)

ParseFloat(s) ==
    LET dots == SelectSeq(s, LAMBDA c : c = ".")
        digs == SelectSeq(s, LAMBDA c : c \in Digits)
        dot == CHOOSE i \in 1..Len(s) : s[i] = "."
    IN IF Len(dots) > 1 \/ Len(digs) = 0
       THEN [ok |-> FALSE]
       ELSE [ok |-> TRUE, num |-> DigitsValue(digs),
             scale |-> IF Len(dots) = 0 THEN 0 ELSE Len(s) - dot]

\* a < b for two parsed floats
FloatLess(a, b) == a.num * Pow10(b.scale) < b.num * Pow10(a.scale)

\* line 112: value < ref_min or value > ref_max
OutOfRange(value, ref_min, ref_max) ==
    FloatLess(value, ref_min) \/ FloatLess(ref_max, value)

IsPrefixAt(s, i, old) ==
    /\ i + Len(old) - 1 <= Len(s)
    /\ SubSeq(s, i, i + Len(old) - 1) = old

\* str.replace(old, new): every non-overlapping occurrence, left to right.
RECURSIVE ReplaceFrom(_, _, _, _)
ReplaceFrom(s, i, old, new) ==
    IF i > Len(s) THEN <<>>
    ELSE IF IsPrefixAt(s, i, old)
         THEN new \o ReplaceFrom(s, i + Len(old), old, new)
         ELSE <<s[i]>> \o ReplaceFrom(s, i + 1, old, new)

Replace(s, old, new) == ReplaceFrom(s, 1, old, new)

\* One turn of the loop of lines 105-119 for match m of the original text.
HighlightStep(highlighted_text, text, m) ==
    LET group0 == SubSeq(text, m.start, m.end)
        value == ParseFloat(m.value)
        ref_min == ParseFloat(m.ref_min)
        ref_max == ParseFloat(m.ref_max)
    IN IF ~(value.ok /\ ref_min.ok /\ ref_max.ok)
       THEN highlighted_text
       ELSE IF OutOfRange(value, ref_min, ref_max)
            THEN Replace(highlighted_text, group0,
                         <<SpanRed>> \o group0 \o <<SpanEnd>>)
            ELSE Replace(highlighted_text, group0,
                         <<SpanGreen>> \o group0 \o <<SpanEnd>>)

RECURSIVE HighlightLoop(_, _, _)
HighlightLoop(highlighted_text, text, matches) ==
    IF matches = <<>> THEN highlighted_text
    ELSE HighlightLoop(HighlightStep(highlighted_text, text, Head(matches)),
                       text, Tail(matches))

highlight_abnormal_values(text) == HighlightLoop(text, text, FindIter(text, 1))

(* ------------------------------------------------------------------ *)
(* More str helpers                                                    *)
(* ------------------------------------------------------------------ *)
LowerSeq == <<"a","b","c","d","e","f","g","h","i","j","k","l","m",
              "n","o","p","q","r","s","t","u","v","w","x","y","z">>
UpperSeq == <<"A","B","C","D","E","F","G","H","I","J","K","L","M",
              "N","O","P","Q","R","S","T","U","V","W","X","Y","Z">>

UpperChar(c) == IF c \in Lower
                THEN UpperSeq[CHOOSE i \in 1..26 : LowerSeq[i] = c] ELSE c
LowerChar(c) == IF c \in Upper
                THEN LowerSeq[CHOOSE i \in 1..26 : UpperSeq[i] = c] ELSE c

\* str.upper() and str.lower()
ToUpper(s) == [i \in 1..Len(s) |-> UpperChar(s[i])]
ToLower(s) == [i \in 1..Len(s) |-> LowerChar(s[i])]

\* sub in s
Contains(s, sub) == \E i \in 1..(Len(s) + 1) : IsPrefixAt(s, i, sub)

\* sep.join(parts)
RECURSIVE Join(_, _)
Join(sep, parts) ==
    IF parts = <<>> THEN <<>>
    ELSE IF Len(parts) = 1 THEN parts[1]
    ELSE parts[1] \o sep \o Join(sep, Tail(parts))

\* str.split(): the maximal runs of non-whitespace characters.
RECURSIVE Split(_)
Split(s) ==
    LET t == LStrip(s)
        e == RunEnd(t, 1, {t[i] : i \in 1..Len(t)} \ Whitespace)
    IN IF t = <<>> THEN <<>>
       ELSE <<SubSeq(t, 1, e - 1)>> \o Split(SubSeq(t, e, Len(t)))

(* ------------------------------------------------------------------ *)
(* The LLM collaborator                                                *)
(* ------------------------------------------------------------------ *)
\* What model.generate_content(prompt) followed by getattr(response,
\* "text", "") can do: raise (the call, or reading .text), give a response
\* without a text attribute, or give text.
LlmRaises == [kind |-> "raise", text |-> <<>>]
LlmNoText == [kind |-> "notext", text |-> <<>>]
LlmText(t) == [kind |-> "text", text |-> t]

\* getattr(response, "text", "")
ResponseText(llm) == IF llm.kind = "text" THEN llm.text ELSE <<>>

(* ------------------------------------------------------------------ *)
(* classify_severity                                                   *)
(* ------------------------------------------------------------------ *)
\* classify_severity with the tests for "B" and "A" in the other order.
classify_severity_BFirst(llm) ==
    IF llm.kind = "raise" THEN "C"
    ELSE LET classification == ToUpper(Strip(ResponseText(llm)))
         IN IF Contains(classification, <<"B">>) THEN "B"
            ELSE IF Contains(classification, <<"A">>) THEN "A"
            ELSE "C"

\* Lines 145-157, given what the LLM call did.
classify_severity(llm) ==
    IF llm.kind = "raise" THEN "C"
    ELSE LET classification == ToUpper(Strip(ResponseText(llm)))
         IN IF Contains(classification, <<"A">>) THEN "A"
            ELSE IF Contains(classification, <<"B">>) THEN "B"
            ELSE "C"

(* ------------------------------------------------------------------ *)
(* summarize_medical_report: its literals                              *)
(* ------------------------------------------------------------------ *)
\* Non-ASCII symbols of the source are written [U+xxxx].
FallbackSummary == "[U+26A0] Could not generate summary."
AdviceAbnormal == "<br><br>[U+26A0] <b>Some findings require follow-up with your doctor.</b> These results indicate notable abnormalities or tissue pattern changes that may need further medical evaluation to rule out potential risks."
AdviceMild == "<br><br>[U+1F7E1] <b>Mild variations observed.</b> Some readings are slightly outside normal limits, but they typically do not indicate serious problems. Monitoring and lifestyle adjustments may be advised."
AdviceNormal == "<br><br>[U+2705] <b>All parameters appear within normal limits.</b> No major concerns detected in this report."

\* Lines 199-202: the summary before post-processing.
SummaryOf(llm) ==
    IF llm.kind = "raise" THEN <<FallbackSummary>>
    ELSE Strip(ResponseText(llm))

\* The blocks of lines 211-228 with those of the elif and the else swapped.
AdviceBlock_Swapped(severity) ==
    IF severity = "A" THEN AdviceAbnormal
    ELSE IF severity = "B" THEN AdviceNormal
    ELSE AdviceMild

\* Lines 211-228: the block appended for a severity.
AdviceBlock(severity) ==
    IF severity = "A" THEN AdviceAbnormal
    ELSE IF severity = "B" THEN AdviceMild
    ELSE AdviceNormal

(* ------------------------------------------------------------------ *)
(* correct_spelling                                                    *)
(* ------------------------------------------------------------------ *)
\* str.isalpha() of a non-empty token of the cleaned text
IsAlpha(w) == w # <<>> /\ \A i \in 1..Len(w) : w[i] \in Lower \cup Upper

\* spell.correction(w) of the spellchecker collaborator: a fixed
\* dictionary; None (here <<>>) when it knows no candidate.
SpellCorrection(w) ==
    IF w = <<"p","e","p">> THEN <<"p","a","p">>
    ELSE IF w = <<"p","a","p">> THEN <<"p","a","p">>
    ELSE <<>>

CorrectWord(w) ==
    IF IsAlpha(w)
    THEN (IF SpellCorrection(w) # <<>> THEN SpellCorrection(w) ELSE w)
    ELSE w

correct_spelling(text) ==
    LET words == Split(text)
    IN Join(<<" ">>, [i \in 1..Len(words) |-> CorrectWord(words[i])])

(* ------------------------------------------------------------------ *)
(* The document type of lines 258-266                                  *)
(* ------------------------------------------------------------------ *)
KwHistopathology == <<"h","i","s","t","o","p","a","t","h","o","l","o","g","y">>
KwEndometrialPolyp == <<"e","n","d","o","m","e","t","r","i","a","l"," ","p","o","l","y","p">>
KwCytology == <<"c","y","t","o","l","o","g","y">>
KwPap == <<"p","a","p">>
KwHaematology == <<"h","a","e","m","a","t","o","l","o","g","y">>
KwBloodCount == <<"b","l","o","o","d"," ","c","o","u","n","t">>

DocName(cleaned) ==
    LET lowered == ToLower(cleaned)
    IN IF Contains(lowered, KwHistopathology) \/ Contains(lowered, KwEndometrialPolyp)
       THEN "Histopathology Report"
       ELSE IF Contains(lowered, KwCytology) \/ Contains(lowered, KwPap)
       THEN "PAP Test Report"
       ELSE IF Contains(lowered, KwHaematology) \/ Contains(lowered, KwBloodCount)
       THEN "Blood Test Report"
       ELSE "General Medical Report"

(* ------------------------------------------------------------------ *)
(* Uploads, the OCR and PDF collaborators, the scratch directory       *)
(* ------------------------------------------------------------------ *)
\* The bytes of a file: a raster image, or a PDF with its page images.
Image(img) == [kind |-> "image", img |-> img, pages |-> <<>>]
Pdf(pages) == [kind |-> "pdf", img |-> "none", pages |-> pages]
NoFile == [kind |-> "absent", img |-> "none", pages |-> <<>>]

\* reader.readtext(path, detail=0) on a raster image: the recognized
\* lines, in detection order.
OcrLines(img) ==
    IF img = "imgA" THEN << <<"p","e","p">> >>
    ELSE IF img = "imgB" THEN << <<"h","b"," ","9">>, <<"(","1","-","5",")">> >>
    ELSE IF img = "pg1" THEN << <<"a","b">>, <<"c">> >>
    ELSE IF img = "pg2" THEN << <<"d">> >>
    ELSE <<>>

\* The files a client uploads: a client-side file name and the bytes.
Uploads ==
    { [filename |-> <<"a"," ","b">>, content |-> Image("imgA")],
      [filename |-> <<"a","/","b">>, content |-> Image("imgB")],
      [filename |-> <<"r",".","P","D","F">>, content |-> Pdf(<<"pg1", "pg2">>)],
      [filename |-> <<"s",".","p","d","f">>, content |-> Pdf(<<"pg2", "pg1">>)],
      [filename |-> <<".",".">>, content |-> Image("imgA")] }

\* werkzeug's secure_filename: path separators become spaces, the words
\* are joined by "_", every character outside [A-Za-z0-9_.-] is dropped,
\* and leading and trailing "." and "_" are stripped.
SafeNameChars == Lower \cup Upper \cup Digits \cup {"_", ".", "-"}

RECURSIVE StripDotUnderscore(_)
StripDotUnderscore(s) ==
    IF s # <<>> /\ Head(s) \in {".", "_"} THEN StripDotUnderscore(Tail(s))
    ELSE IF s # <<>> /\ s[Len(s)] \in {".", "_"}
         THEN StripDotUnderscore(SubSeq(s, 1, Len(s) - 1))
    ELSE s

secure_filename(filename) ==
    LET spaced == [i \in 1..Len(filename) |->
                      IF filename[i] = "/" THEN " " ELSE filename[i]]
        joined == Join(<<"_">>, Split(spaced))
    IN StripDotUnderscore(SelectSeq(joined, LAMBDA c : c \in SafeNameChars))

\* os.path.splitext(file_path)[1].lower() == ".pdf", for a path
\* "uploads/<filename>" whose filename is not empty: the extension
\* starts at the last dot of the name that follows a non-dot character.
RECURSIVE LastDot(_, _)
LastDot(s, i) == IF i = 0 \/ s[i] = "." THEN i ELSE LastDot(s, i - 1)

IsPdfPath(filename) ==
    LET d == LastDot(filename, Len(filename))
    IN /\ d > 1
       /\ \E k \in 1..(d - 1) : filename[k] # "."
       /\ ToLower(SubSeq(filename, d, Len(filename))) = <<".","p","d","f">>

\* f"page_{i}.jpg" in UPLOAD_FOLDER (line 86)
TempImg(i) == <<"p","a","g","e","_", ToString(i), ".","j","p","g">>

\* The names under uploads/ the model can write ("" would be the directory
\* itself).
Paths == ({secure_filename(u.filename) : u \in Uploads} \ {<<>>})
           \cup {TempImg(i) : i \in UNION {0..(Len(u.content.pages) - 1) : u \in Uploads}}

(* ------------------------------------------------------------------ *)
(* State                                                               *)
(* ------------------------------------------------------------------ *)
VARIABLES
    API_KEY,     \* line 21: os.getenv("API_KEY"), None when unset
    fs,          \* the files under UPLOAD_FOLDER: name -> bytes
    request,     \* per request: the X-API-Key header and the "file" field
    pc,          \* per request: where its handler is
    frame,       \* per request: the locals of process_documents and callees
    results,     \* per request: the list of line 246
    response,    \* per request: status and body returned
    fn, arg, ret \* a function of the module called alone: name, argument, returns

vars == <<API_KEY, fs, request, pc, frame, results, response, fn, arg, ret>>
handlerVars == <<API_KEY, fs, request, pc, frame, results, response>>
callVars == <<fn, arg, ret>>

Requests == 1..NumRequests

\* Python's None: what os.getenv gives for an unset variable and what
\* headers.get gives for an absent header.  It equals no str.
None == "<None>"
Keys == {"k1", "k2"}

\* The LLM responses the handler model draws from.
SummaryOutcomes ==
    { LlmRaises,
      LlmText(<<"h","b"," ","9"," ","(","1","-","5",")">>),
      LlmText(<<" ","o","k","\n">>) }
SeverityOutcomes ==
    { LlmRaises, LlmText(<<"a">>), LlmText(<<"B","\n">>), LlmText(<<"C">>) }

Pending == [status |-> 0, body |-> <<>>]
Unauthorized == [status |-> 401, body |-> <<"{\"error\": \"Unauthorized - Invalid API key\"}">>]
NoFileUploaded == [status |-> 400, body |-> <<"{\"error\": \"No file uploaded!\"}">>]
\* An exception that leaves process_documents: Flask answers 500.
ServerError(exc) == [status |-> 500, body |-> <<exc>>]

Separator == "\n\n=========================\n\n"

EmptyFrame ==
    [idx |-> 0, filename |-> <<>>, pages |-> <<>>, i |-> 0, text |-> <<>>,
     raw_text |-> <<>>, cleaned |-> <<>>, doc_name |-> "", summary |-> <<>>,
     summary_llm |-> LlmNoText, summary_text |-> <<>>, severity_llm |-> LlmNoText,
     severity |-> ""]

NoRequest == [header |-> None, has_file |-> FALSE, files |-> <<>>]

\* The sequences over S of length 1 to n.
SeqsUpTo(S, n) == UNION {[1..k -> S] : k \in 1..n}

HandlerInit ==
    /\ API_KEY \in {None, "k1"}
    /\ fs = [p \in Paths |-> NoFile]
    /\ request = [r \in Requests |-> NoRequest]
    /\ pc = [r \in Requests |-> "idle"]
    /\ frame = [r \in Requests |-> EmptyFrame]
    /\ results = [r \in Requests |-> <<>>]
    /\ response = [r \in Requests |-> Pending]

NoCall == fn = "none" /\ arg = <<>> /\ ret = <<>>

Init == HandlerInit /\ NoCall

(* ------------------------------------------------------------------ *)
(* The request handler                                                 *)
(* ------------------------------------------------------------------ *)
Finish(r, resp) ==
    /\ response' = [response EXCEPT ![r] = resp]
    /\ pc' = [pc EXCEPT ![r] = "done"]

Goto(r, label) == pc' = [pc EXCEPT ![r] = label]

\* A POST /api/testing arrives, with or without a key header and a
\* "file" field of up to maxfiles files.
Arrive(r, maxfiles) ==
    /\ pc[r] = "idle"
    /\ \E header \in Keys \cup {None}, has_file \in BOOLEAN,
          files \in SeqsUpTo(Uploads, maxfiles) :
          request' = [request EXCEPT ![r] =
                         [header |-> header, has_file |-> has_file,
                          files |-> IF has_file THEN files ELSE <<>>]]
    /\ Goto(r, "auth")
    /\ UNCHANGED <<API_KEY, fs, frame, results, response, callVars>>

\* require_api_key.decorated_function, lines 39-45
Authenticate(r) ==
    /\ pc[r] = "auth"
    /\ IF request[r].header # API_KEY
       THEN Finish(r, Unauthorized)
       ELSE Goto(r, "validate") /\ UNCHANGED response
    /\ UNCHANGED <<API_KEY, fs, request, frame, results, callVars>>

\* process_documents, lines 240-246
Validate(r) ==
    /\ pc[r] = "validate"
    /\ IF ~request[r].has_file
       THEN Finish(r, NoFileUploaded) /\ UNCHANGED <<frame, results>>
       ELSE /\ results' = [results EXCEPT ![r] = <<>>]
            /\ frame' = [frame EXCEPT ![r].idx = 1]
            /\ Goto(r, "save")
            /\ UNCHANGED response
    /\ UNCHANGED <<API_KEY, fs, request, callVars>>

\* lines 248-252: the next file of the loop is named and saved.  open()
\* of "uploads/" itself raises IsADirectoryError.
Save(r) ==
    /\ pc[r] = "save"
    /\ LET file == request[r].files[frame[r].idx]
           filename == secure_filename(file.filename)
       IN IF filename = <<>>
          THEN Finish(r, ServerError("IsADirectoryError")) /\ UNCHANGED <<fs, frame>>
          ELSE /\ fs' = [fs EXCEPT ![filename] = file.content]
               /\ frame' = [frame EXCEPT ![r].filename = filename]
               /\ Goto(r, "extract")
               /\ UNCHANGED response
    /\ UNCHANGED <<API_KEY, request, results, callVars>>

\* extract_text_from_file, lines 81-84, for a path that ends in ".pdf":
\* convert_from_path reads the file as it is now and renders its pages,
\* or raises (always, when the bytes are no PDF).
ConvertPdf(r) ==
    /\ pc[r] = "extract"
    /\ IsPdfPath(frame[r].filename)
    /\ LET bytes == fs[frame[r].filename]
       IN \/ /\ bytes.kind = "pdf"
             /\ frame' = [frame EXCEPT ![r].pages = bytes.pages,
                                       ![r].i = 0, ![r].text = <<>>]
             /\ Goto(r, IF bytes.pages = <<>> THEN "extracted" ELSE "page_save")
             /\ UNCHANGED response
          \/ /\ Finish(r, ServerError("PDFPageCountError"))
             /\ UNCHANGED frame
    /\ UNCHANGED <<API_KEY, fs, request, results, callVars>>

\* lines 86-87: page i is written to uploads/page_<i>.jpg
PageSave(r) ==
    /\ pc[r] = "page_save"
    /\ fs' = [fs EXCEPT ![TempImg(frame[r].i)] = Image(frame[r].pages[frame[r].i + 1])]
    /\ Goto(r, "page_read")
    /\ UNCHANGED <<API_KEY, request, frame, results, response, callVars>>

\* lines 88-89: the OCR engine reads uploads/page_<i>.jpg as it is now,
\* and its lines are added to text; or the engine raises.
PageRead(r) ==
    /\ pc[r] = "page_read"
    /\ LET bytes == fs[TempImg(frame[r].i)]
           result == OcrLines(bytes.img)
           last == frame[r].i + 1 = Len(frame[r].pages)
       IN \/ /\ bytes.kind = "image"
             /\ frame' = [frame EXCEPT ![r].text = @ \o Join(<<"\n">>, result),
                                       ![r].i = @ + 1]
             /\ Goto(r, IF last THEN "extracted" ELSE "page_save")
             /\ UNCHANGED response
          \/ /\ Finish(r, ServerError("OcrError"))
             /\ UNCHANGED frame
    /\ UNCHANGED <<API_KEY, fs, request, results, callVars>>

\* lines 90-92: any other path is read by the OCR engine directly, as the
\* file is now; the engine raises at will, and always on bytes that are
\* no raster image.
ReadImage(r) ==
    /\ pc[r] = "extract"
    /\ ~IsPdfPath(frame[r].filename)
    /\ LET bytes == fs[frame[r].filename]
           result == OcrLines(bytes.img)
       IN \/ /\ bytes.kind = "image"
             /\ frame' = [frame EXCEPT ![r].text = Join(<<"\n">>, result)]
             /\ Goto(r, "extracted")
             /\ UNCHANGED response
          \/ /\ Finish(r, ServerError("OcrError"))
             /\ UNCHANGED frame
    /\ UNCHANGED <<API_KEY, fs, request, results, callVars>>

\* lines 93-94 and 254: extract_text_from_file returns text
Extracted(r) ==
    /\ pc[r] = "extracted"
    /\ frame' = [frame EXCEPT ![r].raw_text = frame[r].text]
    /\ Goto(r, "clean")
    /\ UNCHANGED <<API_KEY, fs, request, results, response, callVars>>

\* line 255
Clean(r) ==
    /\ pc[r] = "clean"
    /\ frame' = [frame EXCEPT ![r].cleaned = clean_text(frame[r].raw_text)]
    /\ Goto(r, "correct")
    /\ UNCHANGED <<API_KEY, fs, request, results, response, callVars>>

\* line 256
Correct(r) ==
    /\ pc[r] = "correct"
    /\ frame' = [frame EXCEPT ![r].cleaned = correct_spelling(frame[r].cleaned)]
    /\ Goto(r, "classify")
    /\ UNCHANGED <<API_KEY, fs, request, results, response, callVars>>

\* lines 258-266
Classify(r) ==
    /\ pc[r] = "classify"
    /\ frame' = [frame EXCEPT ![r].doc_name = DocName(frame[r].cleaned)]
    /\ Goto(r, "summarize")
    /\ UNCHANGED <<API_KEY, fs, request, results, response, callVars>>

\* The summary LLM call without the try/except of lines 197-202: a failed
\* call leaves the handler.
Summarize_NoExcept(r) ==
    /\ pc[r] = "summarize"
    /\ \E llm \in SummaryOutcomes :
          IF llm.kind = "raise"
          THEN Finish(r, ServerError("LlmError")) /\ UNCHANGED frame
          ELSE /\ frame' = [frame EXCEPT ![r].summary_llm = llm,
                                         ![r].summary = SummaryOf(llm)]
               /\ Goto(r, "highlight")
               /\ UNCHANGED response
    /\ UNCHANGED <<API_KEY, fs, request, results, callVars>>

\* summarize_medical_report, lines 196-202: the summary LLM call
Summarize(r) ==
    /\ pc[r] = "summarize"
    /\ \E llm \in SummaryOutcomes :
          frame' = [frame EXCEPT ![r].summary_llm = llm,
                                 ![r].summary = SummaryOf(llm)]
    /\ Goto(r, "highlight")
    /\ UNCHANGED <<API_KEY, fs, request, results, response, callVars>>

\* line 205
Highlight(r) ==
    /\ pc[r] = "highlight"
    /\ frame' = [frame EXCEPT ![r].summary = highlight_abnormal_values(@)]
    /\ Goto(r, "severity")
    /\ UNCHANGED <<API_KEY, fs, request, results, response, callVars>>

\* line 208: classify_severity(summary), with its LLM call
Severity(r) ==
    /\ pc[r] = "severity"
    /\ \E llm \in SeverityOutcomes :
          frame' = [frame EXCEPT ![r].summary_text = frame[r].summary,
                                 ![r].severity_llm = llm,
                                 ![r].severity = classify_severity(llm)]
    /\ Goto(r, "advice")
    /\ UNCHANGED <<API_KEY, fs, request, results, response, callVars>>

\* lines 211-231
Advice(r) ==
    /\ pc[r] = "advice"
    /\ frame' = [frame EXCEPT ![r].summary = @ \o <<AdviceBlock(frame[r].severity)>>]
    /\ Goto(r, "append")
    /\ UNCHANGED <<API_KEY, fs, request, results, response, callVars>>

\* lines 268-274, and the loop goes on to the next file or ends
AppendResult(r) ==
    /\ pc[r] = "append"
    /\ results' = [results EXCEPT ![r] =
                      Append(@, [filename |-> frame[r].filename,
                                 document_type |-> frame[r].doc_name,
                                 summary |-> frame[r].summary])]
    /\ frame' = [frame EXCEPT ![r].idx = @ + 1]
    /\ Goto(r, IF frame[r].idx < Len(request[r].files) THEN "save" ELSE "combine")
    /\ UNCHANGED <<API_KEY, fs, request, response, callVars>>

\* line 278: one section of the body
Section(res) ==
    <<"[U+1F4C4] ">> \o res.filename \o <<" (", res.document_type, ")\n\n">>
      \o res.summary

\* The join of lines 277-279 over the results newest first.
CombinedOutput_NewestFirst(rs) ==
    Join(<<Separator>>, [k \in 1..Len(rs) |-> Section(rs[Len(rs) + 1 - k])])

\* lines 277-279
CombinedOutput(rs) ==
    Join(<<Separator>>, [k \in 1..Len(rs) |-> Section(rs[k])])

\* lines 276-281
Combine(r) ==
    /\ pc[r] = "combine"
    /\ Finish(r, [status |-> 200, body |-> CombinedOutput(results[r])])
    /\ UNCHANGED <<API_KEY, fs, request, frame, results, callVars>>

\* One step of the handler of request r.
Handle(r) ==
    \/ Authenticate(r)
    \/ Validate(r)
    \/ Save(r)
    \/ ConvertPdf(r)
    \/ PageSave(r)
    \/ PageRead(r)
    \/ ReadImage(r)
    \/ Extracted(r)
    \/ Clean(r)
    \/ Correct(r)
    \/ Classify(r)
    \/ Summarize(r)
    \/ Highlight(r)
    \/ Severity(r)
    \/ Advice(r)
    \/ AppendResult(r)
    \/ Combine(r)

\* One request at a time.
Next == Arrive(1, MaxFiles) \/ Handle(1)

Spec == Init /\ [][Next]_vars

\* NumRequests requests handled by concurrent threads (Flask's development
\* server of line 288 is threaded).
NextThreaded == \E r \in Requests : Arrive(r, MaxFilesThreaded) \/ Handle(r)

SpecThreaded == Init /\ [][NextThreaded]_vars

(* ------------------------------------------------------------------ *)
(* The functions called alone                                          *)
(* ------------------------------------------------------------------ *)
\* The sequences over S of length 0 to n.
StringsUpTo(S, n) == {<<>>} \cup SeqsUpTo(S, n)

\* A letter, a digit, two whitespace characters, a disallowed sign and the
\* backslash.
RawTextChars == {"a", "7", " ", "\n", "#", Backslash}

InitCleanText ==
    /\ HandlerInit
    /\ fn = "clean_text"
    /\ arg \in StringsUpTo(RawTextChars, MaxRawLen)
    /\ ret = <<>>

\* cleaned = clean_text(raw_text)
CallCleanText ==
    /\ fn = "clean_text"
    /\ ret = <<>>
    /\ ret' = <<clean_text(arg)>>
    /\ UNCHANGED <<fn, arg, handlerVars>>

\* clean_text applied to its own output
CallCleanTextAgain ==
    /\ fn = "clean_text"
    /\ Len(ret) = 1
    /\ ret' = Append(ret, clean_text(ret[1]))
    /\ UNCHANGED <<fn, arg, handlerVars>>

NextCleanText == CallCleanText \/ CallCleanTextAgain

SpecCleanText == InitCleanText /\ [][NextCleanText]_vars

\* Pieces of summaries: matches in range, out of range and malformed, a
\* match with a unit, and text between matches.
HighlightSegments ==
    { <<"b"," ","5"," ","(","1","-","9",")">>,
      <<"b"," ","0"," ","(","1","-","9",")">>,
      <<"b"," ","1",".","2",".","3"," ","(","1","-","9",")">>,
      <<"x"," ","1",".","5","m","g"," ","(","1",".","5"," ","-"," ","2",")">>,
      <<",">>, <<"a">>, <<" ">> }

InitHighlight ==
    /\ HandlerInit
    /\ fn = "highlight_abnormal_values"
    /\ arg \in {Join(<<>>, parts) : parts \in SeqsUpTo(HighlightSegments, MaxSegments)}
    /\ ret = <<>>

\* summary = highlight_abnormal_values(summary)
CallHighlight ==
    /\ fn = "highlight_abnormal_values"
    /\ ret = <<>>
    /\ ret' = <<highlight_abnormal_values(arg)>>
    /\ UNCHANGED <<fn, arg, handlerVars>>

NextHighlight == CallHighlight

SpecHighlight == InitHighlight /\ [][NextHighlight]_vars

AnswerChars == {"a", "A", "b", "B", "C", "x", " "}

\* What the LLM can do when classify_severity calls it.
SeverityAnswers ==
    {LlmRaises, LlmNoText}
      \cup {LlmText(t) : t \in StringsUpTo(AnswerChars, MaxAnswerLen)}

InitSeverity ==
    /\ HandlerInit
    /\ fn = "classify_severity"
    /\ arg \in {<<"o","k">>, <<FallbackSummary>>}
    /\ ret = <<>>

\* severity = classify_severity(summary_text): the LLM answers, the answer
\* is parsed
CallClassifySeverity ==
    /\ fn = "classify_severity"
    /\ ret = <<>>
    /\ \E llm \in SeverityAnswers :
          ret' = <<[llm |-> llm, severity |-> classify_severity(llm)]>>
    /\ UNCHANGED <<fn, arg, handlerVars>>

NextSeverity == CallClassifySeverity

SpecSeverity == InitSeverity /\ [][NextSeverity]_vars

(* ------------------------------------------------------------------ *)
(* Properties                                                          *)
(* ------------------------------------------------------------------ *)

\* C1: a request whose X-API-Key header differs from API_KEY, and every
\* request when API_KEY is unset, is answered 401 with the Unauthorized
\* body and never enters process_documents.
C1_RejectsUnsetOrMismatchedKey ==
    \A r \in Requests :
        (pc[r] \notin {"idle", "auth"}
           /\ (API_KEY = None \/ request[r].header # API_KEY))
        => (pc[r] = "done" /\ response[r] = Unauthorized)

\* C2, as claimed: a request ends 401, 400 (no file field) or 200, and no
\* failure of a collaborator (OCR, PDF rendering, LLM) makes it end
\* otherwise.  A file that cannot even be saved is left aside here.
C2_OnlyThreeTerminalStates ==
    \A r \in Requests :
        pc[r] = "done" =>
            \/ response[r] = Unauthorized
            \/ response[r] = NoFileUploaded /\ ~request[r].has_file
            \/ response[r].status = 200 /\ request[r].has_file
            \/ response[r] = ServerError("IsADirectoryError")

SaveAndExtractErrors ==
    {<<"IsADirectoryError">>, <<"PDFPageCountError">>, <<"OcrError">>}

\* C2, amended: a request ends 401 (key mismatch), 400 (no file field),
\* 200 (every file processed) or with the exception raised while saving
\* or extracting one of its files (500); a failed LLM call, for the
\* summary or for the severity, never ends a request otherwise than 200.
C2_TerminalStates ==
    \A r \in Requests :
        pc[r] = "done" =>
            \/ response[r] = Unauthorized /\ request[r].header # API_KEY
            \/ /\ response[r] = NoFileUploaded
               /\ request[r].header = API_KEY
               /\ ~request[r].has_file
            \/ /\ response[r].status = 200
               /\ request[r].header = API_KEY
               /\ request[r].has_file
               /\ Len(results[r]) = Len(request[r].files)
            \/ /\ response[r].status = 500
               /\ response[r].body \in SaveAndExtractErrors
               /\ request[r].header = API_KEY
               /\ request[r].has_file
               /\ Len(results[r]) < Len(request[r].files)
               /\ frame[r].idx = Len(results[r]) + 1

\* A request ended 200 although both LLM calls of its last file failed.
C2_Witness ==
    /\ pc[1] = "done"
    /\ response[1].status = 200
    /\ frame[1].summary_llm = LlmRaises
    /\ frame[1].severity_llm = LlmRaises

\* The pieces of s between the elements equal to sep.
RECURSIVE SplitOn(_, _)
SplitOn(s, sep) ==
    LET e == RunEnd(s, 1, {s[i] : i \in 1..Len(s)} \ {sep})
    IN IF e > Len(s) THEN <<s>>
       ELSE <<SubSeq(s, 1, e - 1)>> \o SplitOn(SubSeq(s, e + 1, Len(s)), sep)

PerFilePhases ==
    {"save", "extract", "page_save", "page_read", "extracted", "clean", "correct",
     "classify", "summarize", "highlight", "severity", "advice", "append"}

\* C3: a 200 body is one section per uploaded file, in upload order, with
\* the separator between consecutive sections; section i is headed by the
\* sanitized name of file i and its document type and followed by its
\* summary; file i is saved only when files 1..i-1 are in the results,
\* each result being the name, the document type of the cleaned and
\* corrected text, and the summary of the file just processed.
C3_SectionsInUploadOrder ==
    \A r \in Requests :
        LET files == request[r].files
            n == Len(files)
            sections == SplitOn(response[r].body, Separator)
        IN /\ pc[r] \in PerFilePhases =>
                 /\ frame[r].idx \in 1..n
                 /\ Len(results[r]) = frame[r].idx - 1
           /\ pc[r] \in PerFilePhases \ {"save"} =>
                 frame[r].filename = secure_filename(files[frame[r].idx].filename)
           /\ \A k \in 1..Len(results[r]) :
                 results[r][k].filename = secure_filename(files[k].filename)
           /\ pc[r] \in {"summarize", "highlight", "severity", "advice", "append"} =>
                 frame[r].doc_name =
                     DocName(correct_spelling(clean_text(frame[r].raw_text)))
           /\ (pc[r] \in {"save", "combine"} /\ Len(results[r]) >= 1) =>
                 results[r][Len(results[r])] =
                     [filename |-> frame[r].filename,
                      document_type |-> frame[r].doc_name,
                      summary |-> frame[r].summary]
           /\ (pc[r] = "done" /\ response[r].status = 200) =>
                 /\ n >= 1
                 /\ Len(sections) = n
                 /\ \A k \in 1..n :
                       sections[k] =
                           <<"[U+1F4C4] ">> \o secure_filename(files[k].filename)
                             \o <<" (", results[r][k].document_type, ")\n\n">>
                             \o results[r][k].summary

\* Two different files were processed and answered in two sections.
C3_Witness ==
    /\ pc[1] = "done"
    /\ response[1].status = 200
    /\ Len(request[1].files) = 2
    /\ results[1][1].filename # results[1][2].filename
    /\ results[1][1].document_type # results[1][2].document_type
    /\ Len(SelectSeq(response[1].body, LAMBDA c : c = Separator)) = 1

HasAnyOf(t, chars) == \E i \in 1..Len(t) : t[i] \in chars

\* C4: classify_severity returns "A" when the answer holds an a or A,
\* else "B" when it holds a b or B, else "C"; and "C" when the LLM call
\* fails.
C4_SeverityIsABC ==
    (fn = "classify_severity" /\ ret # <<>>) =>
        LET llm == ret[1].llm
            severity == ret[1].severity
        IN /\ severity \in {"A", "B", "C"}
           /\ llm.kind = "raise" => severity = "C"
           /\ llm.kind = "notext" => severity = "C"
           /\ llm.kind = "text" =>
                 severity = IF HasAnyOf(llm.text, {"a", "A"}) THEN "A"
                            ELSE IF HasAnyOf(llm.text, {"b", "B"}) THEN "B"
                            ELSE "C"

\* An answer with a B before a lower-case a is classified A.
C4_Witness ==
    /\ fn = "classify_severity"
    /\ ret # <<>>
    /\ ret[1].llm = LlmText(<<"B", " ", "a">>)
    /\ ret[1].severity = "A"

\* The permitted set as the claim lists it.
ClaimedPermitted ==
    Lower \cup Upper \cup Digits \cup {"%", ":", ".", ",", "/", "-", " ", "(", ")"}

\* C5: the output of clean_text holds only permitted characters, no two
\* consecutive spaces, no leading or trailing space; "" gives "".
C5_CleanTextOutput ==
    (fn = "clean_text" /\ ret # <<>>) =>
        LET out == ret[1]
        IN /\ \A i \in 1..Len(out) : out[i] \in ClaimedPermitted
           /\ \A i \in 1..(Len(out) - 1) : ~(out[i] = " " /\ out[i + 1] = " ")
           /\ out # <<>> => (out[1] # " " /\ out[Len(out)] # " ")
           /\ arg = <<>> => out = <<>>

\* C6: clean_text of an output of clean_text is that output.
C6_CleanTextIdempotent ==
    (fn = "clean_text" /\ Len(ret) = 2) => ret[2] = ret[1]

\* The stack of the spans open at each character of s that is no tag.
RECURSIVE SpanStacks(_, _)
SpanStacks(s, stack) ==
    IF s = <<>> THEN <<>>
    ELSE IF Head(s) \in {SpanRed, SpanGreen}
         THEN SpanStacks(Tail(s), Append(stack, Head(s)))
    ELSE IF Head(s) = SpanEnd
         THEN SpanStacks(Tail(s), SubSeq(stack, 1, Len(stack) - 1))
    ELSE <<stack>> \o SpanStacks(Tail(s), stack)

Untag(s) == SelectSeq(s, LAMBDA c : c \notin {SpanRed, SpanGreen, SpanEnd})

IsNumber(s) ==
    /\ Len(SelectSeq(s, LAMBDA c : c = ".")) <= 1
    /\ Len(SelectSeq(s, LAMBDA c : c \in Digits)) >= 1

\* C7: every character of a match whose three numbers parse stands in
\* spans of the match's colour only (green when min <= value <= max, red
\* otherwise), every other character stands in no span, and the text
\* without the spans is the input.
C7_EveryMatchWrapped ==
    (fn = "highlight_abnormal_values" /\ ret # <<>>) =>
        LET out == ret[1]
            matches == FindIter(arg, 1)
            stacks == SpanStacks(out, <<>>)
            Wanted(k) ==
                IF \E j \in 1..Len(matches) :
                       /\ matches[j].start <= k /\ k <= matches[j].end
                       /\ IsNumber(matches[j].value)
                       /\ IsNumber(matches[j].ref_min)
                       /\ IsNumber(matches[j].ref_max)
                THEN LET m == matches[CHOOSE j \in 1..Len(matches) :
                                   matches[j].start <= k /\ k <= matches[j].end]
                         v == ParseFloat(m.value)
                         lo == ParseFloat(m.ref_min)
                         hi == ParseFloat(m.ref_max)
                     IN IF ~FloatLess(v, lo) /\ ~FloatLess(hi, v)
                        THEN SpanGreen ELSE SpanRed
                ELSE "none"
        IN /\ Untag(out) = arg
           /\ \A k \in 1..Len(arg) :
                 IF Wanted(k) = "none" THEN stacks[k] = <<>>
                 ELSE /\ stacks[k] # <<>>
                      /\ \A d \in 1..Len(stacks[k]) : stacks[k][d] = Wanted(k)

\* What extract_text_from_file gives for a file read alone: the text of a
\* request's own bytes.
RECURSIVE PagesText(_)
PagesText(pages) ==
    IF pages = <<>> THEN <<>>
    ELSE Join(<<"\n">>, OcrLines(Head(pages))) \o PagesText(Tail(pages))

OwnText(content) ==
    IF content.kind = "pdf" THEN PagesText(content.pages)
    ELSE Join(<<"\n">>, OcrLines(content.img))

\* C8: the text extracted for a file of a request is the text of the
\* bytes that request uploaded, whatever the other requests do.
C8_TextFromOwnUpload ==
    \A r \in Requests :
        pc[r] = "clean" =>
            frame[r].raw_text = OwnText(request[r].files[frame[r].idx].content)

\* C9: the text of a PDF is the texts of its pages joined by newlines, the
\* text of a page (and of an image) being its lines joined by newlines.
C9_PagesJoinedByNewline ==
    \A r \in Requests :
        pc[r] = "clean" =>
            LET content == request[r].files[frame[r].idx].content
                PageText(k) == Join(<<"\n">>, OcrLines(content.pages[k]))
            IN frame[r].raw_text =
                 IF content.kind = "pdf"
                 THEN Join(<<"\n">>, [k \in 1..Len(content.pages) |-> PageText(k)])
                 ELSE Join(<<"\n">>, OcrLines(content.img))

\* C10: whatever the summary LLM call did, the highlighter runs on the
\* summary (the fallback string when the call failed), then the severity
\* classifier is given the highlighted summary, then the block of the
\* classifier's tier is appended: A abnormal, B mild, C normal; when both
\* LLM calls fail the result is the fallback string and the normal block.
C10_PostProcessingOrder ==
    \A r \in Requests :
        LET f == frame[r]
            base == IF f.summary_llm.kind = "raise" THEN <<FallbackSummary>>
                    ELSE Strip(f.summary_llm.text)
            highlighted == highlight_abnormal_values(base)
            tier == classify_severity(f.severity_llm)
        IN /\ pc[r] = "highlight" => f.summary = base
           /\ pc[r] = "severity" => f.summary = highlighted
           /\ pc[r] = "advice" =>
                 /\ f.summary = highlighted
                 /\ f.summary_text = highlighted
                 /\ f.severity = tier
           /\ pc[r] = "append" =>
                 /\ f.summary_text = highlighted
                 /\ f.severity = tier
                 /\ tier = "A" => f.summary = highlighted \o <<AdviceAbnormal>>
                 /\ tier = "B" => f.summary = highlighted \o <<AdviceMild>>
                 /\ tier = "C" => f.summary = highlighted \o <<AdviceNormal>>
                 /\ f.summary_llm.kind = "raise" =>
                       /\ Len(f.summary) = 2
                       /\ f.summary[1] = FallbackSummary
                       /\ f.summary[2] \in {AdviceAbnormal, AdviceMild, AdviceNormal}
                 /\ (f.summary_llm.kind = "raise" /\ f.severity_llm.kind = "raise") =>
                       f.summary = <<FallbackSummary, AdviceNormal>>

\* Both LLM calls failed and the summary is the fallback and the normal
\* block.
C10_Witness ==
    /\ pc[1] = "append"
    /\ frame[1].summary_llm = LlmRaises
    /\ frame[1].severity_llm = LlmRaises
    /\ frame[1].summary = <<FallbackSummary, AdviceNormal>>

====
